---- MODULE Spec2Model ----
(***************************************************************************)
(* Model of the mylife-home-core plugin runtime:                           *)
(*   - the module loader (mylife-home-core/src/module.rs): Module::load,   *)
(*     the plugin registry, Plugin, and the reference-counted ownership    *)
(*     of the loaded library;                                              *)
(*   - the component runtime (plugin-runtime/src/macros_backend/runtime.rs)*)
(*     : FailureHandler and ComponentImpl, driving a ValueBinary plugin    *)
(*     (plugins/logic-base/src/value_binary.rs) whose state member is a    *)
(*     State<bool> (core-plugin-runtime/src/plugin/definition.rs).         *)
(* SpecModule is the specification of the loader, Spec the specification   *)
(* of one component.                                                       *)
(***************************************************************************)
EXTENDS Integers, Sequences, FiniteSets, TLC

VARIABLES
    modules,      \* loader: the Arc<Module> allocations made by load
    plugins,      \* loader: the Plugins returned by load, held by the host
    components,   \* loader: the components created by create_component
    lastLoad,     \* loader: the last host operation and, for load, its outcome
    self,         \* component: the ComponentImpl (plugin instance, latch, callbacks)
    trace,        \* component: what the last operation invoked
    pre,          \* component: the ComponentImpl before the last operation
    call,         \* component: the last operation, its arguments and its result
    firstError,   \* component: the error given to the first fail call ever made
    installed,    \* component: the callbacks set_on_fail and set_on_state were given
    container,    \* state container: a State<T> on its own
    containerCall \* state container: the last call on it and its outcome

loaderVars == <<modules, plugins, components, lastLoad>>
componentVars == <<self, trace, pre, call, firstError, installed>>
stateVars == <<container, containerCall>>
vars == <<modules, plugins, components, lastLoad, self, trace, pre, call, firstError,
          installed, container, containerCall>>

None == [kind |-> "None"]

(***************************************************************************)
(* Bounds                                                                  *)
(***************************************************************************)
MaxModules == 2
MaxRegister == 2
MaxComponents == 1
MaxStateValue == 3

(***************************************************************************)
(* Names are sequences of characters, so that conversions act on them.     *)
(***************************************************************************)
Lower(c) == CASE c = "A" -> "a" [] c = "B" -> "b" [] OTHER -> c

IsUpper(c) == c \in {"A", "B"}

IsDelimiter(c) == c \in {"_", "-", " "}

RECURSIVE KebabFrom(_, _, _)
KebabFrom(name, i, out) ==
    IF i > Len(name) THEN out
    ELSE LET c == name[i]
             prevLower == i > 1 /\ ~IsUpper(name[i-1]) /\ ~IsDelimiter(name[i-1])
             atEnd == out = <<>> \/ out[Len(out)] = "-"
         IN IF IsDelimiter(c)
            THEN KebabFrom(name, i + 1, IF atEnd THEN out ELSE Append(out, "-"))
            ELSE IF IsUpper(c) /\ prevLower
                 THEN KebabFrom(name, i + 1, out \o <<"-", Lower(c)>>)
                 ELSE KebabFrom(name, i + 1, Append(out, Lower(c)))

StripTrailingDash(s) ==
    IF s # <<>> /\ s[Len(s)] = "-" THEN SubSeq(s, 1, Len(s) - 1) ELSE s

\* make_module_name as it would be if the requested name were kept as given.
make_module_name_verbatim(name) == name

\* make_module_name: name.to_case(Case::Kebab)
make_module_name(name) == StripTrailingDash(KebabFrom(name, 1, <<>>))

(***************************************************************************)
(* The host's own versions, and the declaration records a library file may *)
(* export.                                                                 *)
(***************************************************************************)
RUSTC_VERSION == "rustc-1"
CORE_VERSION == "core-1"
MYLIFE_RUNTIME_VERSION == "runtime-1"

RustcVersions == {RUSTC_VERSION, "rustc-2"}
CoreVersions == {CORE_VERSION, "core-2"}
RuntimeVersions == {MYLIFE_RUNTIME_VERSION, "runtime-2"}

ModuleNames == { <<"a", "b">>, <<"a", "_", "b">>, <<"a", "B">> }
RuntimeNames == { <<"p">>, <<"q">> }

RegisterFunctions == UNION { [1..n -> RuntimeNames] : n \in 0..MaxRegister }

ModuleDeclaration ==
    [rustc_version : RustcVersions,
     core_version : CoreVersions,
     mylife_runtime_version : RuntimeVersions,
     module_version : {"1.0"},
     register : RegisterFunctions]

(***************************************************************************)
(* Module loader                                                           *)
(***************************************************************************)

\* Arc::clone and the drop of one Arc, on the strong count of the allocation.
Arc_clone(strong) == strong + 1

Arc_drop(strong) == strong - 1

\* Plugin::new: the id is "<module-name>.<plugin-name>"; the Plugin keeps the
\* Arc<Module> it is given.
Plugin_new(module, moduleName, runtime) ==
    [id |-> moduleName \o <<".">> \o runtime,
     runtime |-> runtime,
     module |-> module]

\* PluginRegistryImpl::new: takes ownership of one Arc<Module>, no plugins yet.
PluginRegistryImpl_new(module, moduleName, strong) ==
    [module |-> module, moduleName |-> moduleName, strong |-> strong, plugins |-> <<>>]

\* register_plugin as it would be if the Plugin did not keep its own
\* Arc<Module>.
register_plugin_weak(registry, runtime) ==
    [registry EXCEPT
        !.plugins = Append(@, Plugin_new(registry.module, registry.moduleName, runtime))]

\* register_plugin as it would be if a runtime already registered under the
\* same name were rejected.
register_plugin_dedup(registry, runtime) ==
    IF \E i \in 1..Len(registry.plugins) : registry.plugins[i].runtime = runtime
    THEN registry
    ELSE [registry EXCEPT
             !.strong = Arc_clone(@),
             !.plugins = Append(@, Plugin_new(registry.module, registry.moduleName, runtime))]

\* register_plugin: clones the registry's Arc<Module> into a new Plugin and
\* pushes it.
register_plugin(registry, runtime) ==
    [registry EXCEPT
        !.strong = Arc_clone(@),
        !.plugins = Append(@, Plugin_new(registry.module, registry.moduleName, runtime))]

\* The module's registration function: its register_plugin calls, in order.
RECURSIVE register(_, _, _)
register(calls, i, registry) ==
    IF i > Len(calls) THEN registry
    ELSE register(calls, i + 1, register_plugin(registry, calls[i]))

\* version_check as it would be with the core version compared first.
version_check_core_first(decl) ==
    IF decl.core_version # CORE_VERSION
    THEN [kind |-> "CoreVersionMismatch",
          module |-> decl.core_version, core |-> CORE_VERSION]
    ELSE IF decl.rustc_version # RUSTC_VERSION
    THEN [kind |-> "RustCompilerVersionMismatch",
          module |-> decl.rustc_version, core |-> RUSTC_VERSION]
    ELSE IF decl.mylife_runtime_version # MYLIFE_RUNTIME_VERSION
    THEN [kind |-> "MylifeRuntimeVersionMismatch",
          module |-> decl.mylife_runtime_version, core |-> MYLIFE_RUNTIME_VERSION]
    ELSE None

\* version_check as it would be without the runtime protocol comparison.
version_check_no_runtime(decl) ==
    IF decl.rustc_version # RUSTC_VERSION
    THEN [kind |-> "RustCompilerVersionMismatch",
          module |-> decl.rustc_version, core |-> RUSTC_VERSION]
    ELSE IF decl.core_version # CORE_VERSION
    THEN [kind |-> "CoreVersionMismatch",
          module |-> decl.core_version, core |-> CORE_VERSION]
    ELSE None

\* The three version checks of load, in the order of the if / else if chain.
version_check(decl) ==
    IF decl.rustc_version # RUSTC_VERSION
    THEN [kind |-> "RustCompilerVersionMismatch",
          module |-> decl.rustc_version, core |-> RUSTC_VERSION]
    ELSE IF decl.core_version # CORE_VERSION
    THEN [kind |-> "CoreVersionMismatch",
          module |-> decl.core_version, core |-> CORE_VERSION]
    ELSE IF decl.mylife_runtime_version # MYLIFE_RUNTIME_VERSION
    THEN [kind |-> "MylifeRuntimeVersionMismatch",
          module |-> decl.mylife_runtime_version, core |-> MYLIFE_RUNTIME_VERSION]
    ELSE None

\* Module::load on a library whose declaration record is decl; addr is the
\* allocation the new Arc<Module> gets.  The outcome tells what was returned,
\* whether the registration function ran, and the strong count of the Module
\* when load returns (the local Arc and the registry's Arc are dropped then).
load(name, decl, addr) ==
    LET error == version_check(decl)
    IN  IF error # None
        THEN [result |-> "Err", error |-> error, plugins |-> <<>>,
              constructed |-> FALSE, registerInvoked |-> FALSE,
              moduleName |-> <<>>, strong |-> 0]
        ELSE LET moduleName == make_module_name(name)
                 strong0 == 1
                 registry0 == PluginRegistryImpl_new(addr, moduleName, Arc_clone(strong0))
                 registry == register(decl.register, 1, registry0)
             IN  [result |-> "Ok", error |-> None, plugins |-> registry.plugins,
                  constructed |-> TRUE, registerInvoked |-> TRUE,
                  moduleName |-> moduleName,
                  strong |-> Arc_drop(Arc_drop(registry.strong))]

\* The library handle is owned by the Module: it is unloaded when the last
\* Arc<Module> is dropped.
LibraryOf(strong) == IF strong = 0 THEN "unloaded" ELSE "loaded"

NoLoad == [op |-> "none"]

Remove(seq, i) == SubSeq(seq, 1, i - 1) \o SubSeq(seq, i + 1, Len(seq))

\* The host calls load; lastLoad is the call and its outcome, which the host
\* looks at until it lets go of it (DiscardResult).  A constructed Module is
\* added to the allocations and the returned Plugins are the host's to hold.
Load(name, decl) ==
    /\ lastLoad = NoLoad
    /\ Len(modules) < MaxModules
    /\ LET addr == Len(modules) + 1
           out == load(name, decl, addr)
       IN  /\ lastLoad' = [op |-> "load", name |-> name, decl |-> decl, out |-> out,
                           held |-> Len(plugins)]
           /\ IF out.constructed
              THEN /\ modules' = Append(modules,
                                    [name |-> out.moduleName,
                                     version |-> decl.module_version,
                                     strong |-> out.strong,
                                     library |-> LibraryOf(out.strong)])
                   /\ plugins' = plugins \o out.plugins
              ELSE UNCHANGED <<modules, plugins>>
    /\ UNCHANGED components
    /\ UNCHANGED componentVars
    /\ UNCHANGED stateVars

DiscardResult ==
    /\ lastLoad # NoLoad
    /\ lastLoad' = NoLoad
    /\ UNCHANGED <<modules, plugins, components>>
    /\ UNCHANGED componentVars
    /\ UNCHANGED stateVars

\* Drop of a Plugin: its fields are dropped, the Arc<Module> last.
Plugin_drop(module) ==
    LET strong == Arc_drop(module.strong)
    IN  [module EXCEPT !.strong = strong, !.library = LibraryOf(strong)]

\* The host drops the p-th Plugin it holds.
DropPlugin(p) ==
    /\ lastLoad = NoLoad
    /\ p \in 1..Len(plugins)
    /\ plugins' = Remove(plugins, p)
    /\ modules' = [modules EXCEPT ![plugins[p].module] = Plugin_drop(@)]
    /\ UNCHANGED <<components, lastLoad>>
    /\ UNCHANGED componentVars
    /\ UNCHANGED stateVars

\* Plugin::create_component: the runtime creates the component.  The component
\* holds the plugin type's access table and no Arc<Module>; library is the
\* allocation of the Module whose library holds the component's code.
create_component(plugin, module) ==
    [component |-> [library |-> plugin.module], module |-> module]

\* The host creates a component from the p-th Plugin it holds.
CreateComponent(p) ==
    /\ lastLoad = NoLoad
    /\ Len(components) < MaxComponents
    /\ p \in 1..Len(plugins)
    /\ LET created == create_component(plugins[p], modules[plugins[p].module])
       IN  /\ components' = Append(components, created.component)
           /\ modules' = [modules EXCEPT ![plugins[p].module] = created.module]
    /\ UNCHANGED <<plugins, lastLoad>>
    /\ UNCHANGED componentVars
    /\ UNCHANGED stateVars

\* The host drops the c-th component it holds.
DropComponent(c) ==
    /\ lastLoad = NoLoad
    /\ c \in 1..Len(components)
    /\ components' = Remove(components, c)
    /\ UNCHANGED <<modules, plugins, lastLoad>>
    /\ UNCHANGED componentVars
    /\ UNCHANGED stateVars

(***************************************************************************)
(* Component runtime                                                       *)
(***************************************************************************)

\* Values cross the component boundary tagged with their type.
typed_into(value, type) == [type |-> type, value |-> value]

BoolValue(b) == typed_into(b, "Bool")

Absent == [type |-> "Absent"]

ConfigNames == {"config", "extra"}
ConfigValues == {BoolValue(TRUE), BoolValue(FALSE), [type |-> "String", text |-> "x"]}
Configs == [ConfigNames -> ConfigValues \cup {Absent}]

ActionNames == {"on", "off", "toggle", "missing"}
ActionValues == {BoolValue(TRUE), BoolValue(FALSE)}
StateNames == {"state", "missing"}

FailCallbacks == {"on_fail_1", "on_fail_2"}
StateCallbacks == {"on_state_1", "on_state_2"}

\* The access tables a plugin type may be registered with: the config setters
\* in the iteration order of their map, the state members and the actions.
\* The plugin types driven: ValueBinary, and a plugin like it whose init hook
\* and whose action on return an error after doing their work.
PluginTypes == {"ValueBinary", "Faulty"}

AccessTables ==
    [plugin : PluginTypes,
     configs : { <<"config">>, <<"config", "extra">>, <<"extra", "config">> },
     states : { <<"state">> },
     actions : { {"on", "off", "toggle"} }]

ConfigNotSetError(name) == [kind |-> "ConfigNotSetError", name |-> name]
NoSuchActionError(name) == [kind |-> "NoSuchActionError", name |-> name]
NoSuchStateError(name) == [kind |-> "NoSuchStateError", name |-> name]
ConfigTypeError(name) == [kind |-> "ConfigTypeError", name |-> name]
TestError == [kind |-> "TestError", name |-> "Boom!"]
PluginError(name) == [kind |-> "PluginError", name |-> name]

Ok(value) == [kind |-> "Ok", value |-> value]
Unit == "()"

EmptyTrace ==
    [failArgs |-> <<>>,       \* the errors given to fail
     failCalls |-> <<>>,      \* the invocations of a fail callback
     stateCalls |-> <<>>,     \* the invocations of a state callback
     listenerCalls |-> <<>>,  \* the invocations of a bound state listener
     sets |-> <<>>,           \* the values given to State::set
     unbound |-> FALSE,       \* whether State::set was called on an unbound State
     pluginFails |-> <<>>,    \* the errors the plugin gave to its fail handler
     result |-> None,         \* the Result given to res_to_fail
     setters |-> <<>>,        \* the config setters invoked
     setterErrors |-> <<>>,   \* the config setters that returned an error
     executors |-> <<>>,      \* the action executors invoked
     hooks |-> <<>>,          \* the plugin hooks invoked
     panicked |-> FALSE]

\* FailureHandler::new: nothing stored, the panicking default handler.
FailureHandler_new == [failure |-> None, fail_handler |-> "default"]

\* FailureHandler::failure
failure(s) == s.self.failure

\* call_fail_handler as it would be if the default handler returned.
call_fail_handler_silent(s, error) ==
    [s EXCEPT
        !.trace.failCalls = Append(@, [handler |-> s.self.fail_handler, error |-> error])]

\* The call of the installed fail callback; the default one panics.
call_fail_handler(s, error) ==
    [s EXCEPT
        !.trace.failCalls = Append(@, [handler |-> s.self.fail_handler, error |-> error]),
        !.trace.panicked = @ \/ s.self.fail_handler = "default"]

\* fail as it would be if a later error replaced the stored one.
fail_overwrite(s, error) ==
    LET given == [s EXCEPT !.trace.failArgs = Append(@, error)]
        stored == [given EXCEPT !.self.failure = error]
    IN  call_fail_handler(stored, failure(stored))

\* fail as it would be if the callback were given the error of this call.
fail_new_error(s, error) ==
    LET given == [s EXCEPT !.trace.failArgs = Append(@, error)]
        stored == IF failure(given) # None
                  THEN given
                  ELSE [given EXCEPT !.self.failure = error]
    IN  call_fail_handler(stored, error)

\* FailureHandler::fail
fail(s, error) ==
    LET given == [s EXCEPT !.trace.failArgs = Append(@, error)]
        stored == IF failure(given) # None
                  THEN given
                  ELSE [given EXCEPT !.self.failure = error]
    IN  call_fail_handler(stored, failure(stored))

\* set_handler as it would be if a handler already installed were kept.
set_handler_keep_first(s, handler) ==
    IF s.self.fail_handler = "default"
    THEN [s EXCEPT !.self.fail_handler = handler]
    ELSE s

\* FailureHandler::set_handler
set_handler(s, handler) == [s EXCEPT !.self.fail_handler = handler]

\* state_listener as it would be if the closure held the state callback of the
\* time it was bound, which is none.
state_listener_captured(s, name, value) ==
    [s EXCEPT !.trace.listenerCalls =
         Append(@, [name |-> name, value |-> value,
                    held |-> s.self.component.state.value])]

\* The listener closure bound to state member name by register_state_handlers:
\* forwards to the state callback installed when it runs, if any.  held is the
\* value the State holds while the listener runs.
state_listener(s, name, value) ==
    LET heard == [s EXCEPT !.trace.listenerCalls =
                      Append(@, [name |-> name, value |-> value,
                                 held |-> s.self.component.state.value])]
    IN  IF s.self.state_handler # "none"
        THEN [heard EXCEPT !.trace.stateCalls =
                  Append(@, [handler |-> s.self.state_handler, name |-> name, value |-> value])]
        ELSE heard

\* State::runtime_register
runtime_register(state, listener, type) ==
    [state EXCEPT !.runtime = [listener |-> listener, type |-> type]]

\* State::set as it would be if the listener were called before the value is
\* stored.
State_set_notify_first(state, value) ==
    IF state.runtime = None
    THEN [during |-> state, state |-> state, panicked |-> TRUE, listened |-> <<>>]
    ELSE [during |-> state, state |-> [state EXCEPT !.value = value], panicked |-> FALSE,
          listened |-> <<[listener |-> state.runtime.listener,
                          value |-> typed_into(value, state.runtime.type)]>>]

\* State::set as it would be if an unbound State stored the value silently.
State_set_unbound_stores(state, value) ==
    LET stored == [state EXCEPT !.value = value]
    IN  IF state.runtime = None
        THEN [during |-> stored, state |-> stored, panicked |-> FALSE, listened |-> <<>>]
        ELSE [during |-> stored, state |-> stored, panicked |-> FALSE,
              listened |-> <<[listener |-> stored.runtime.listener,
                              value |-> typed_into(stored.value, stored.runtime.type)]>>]

\* State::set: panics on an unbound State; otherwise stores the value, then
\* calls the bound listener with the stored value converted.  The outcome is
\* the State while the listener runs (during), the State when set returns or
\* unwinds (state), and the call of the listener.
State_set(state, value) ==
    IF state.runtime = None
    THEN [during |-> state, state |-> state, panicked |-> TRUE, listened |-> <<>>]
    ELSE LET stored == [state EXCEPT !.value = value]
         IN  [during |-> stored, state |-> stored, panicked |-> FALSE,
              listened |-> <<[listener |-> stored.runtime.listener,
                              value |-> typed_into(stored.value, stored.runtime.type)]>>]

\* self.state.set(value) in the plugin's code, the listener being the closure
\* of register_state_handlers.
set_state(s, value) ==
    LET given == [s EXCEPT !.trace.sets = Append(@, value)]
        out == State_set(s.self.component.state, value)
        during == [given EXCEPT !.self.component.state = out.during]
        listened == IF out.listened = <<>> THEN during
                    ELSE state_listener(during, out.listened[1].listener,
                                        out.listened[1].value)
        after == [listened EXCEPT !.self.component.state = out.state]
    IN  IF out.panicked
        THEN [after EXCEPT !.trace.panicked = TRUE, !.trace.unbound = TRUE]
        ELSE after

\* State::get
State_get(state) == state.value

\* ComponentImpl::register_state_handlers
\* register_state_handlers as it would be if it bound no listener.
register_state_handlers_skip(c, i) == c

\* ComponentImpl::register_state_handlers: binds a listener to each state
\* member of the access table; registered lists the bindings made.
RECURSIVE register_state_handlers(_, _)
register_state_handlers(c, i) ==
    IF i > Len(c.access.states) THEN c
    ELSE register_state_handlers(
             [c EXCEPT !.component.state =
                  runtime_register(@, c.access.states[i], "Bool"),
                       !.registered = Append(@, c.access.states[i])], i + 1)

\* ValueBinary::default / PluginType::new
ValueBinary_new ==
    [config |-> [n \in ConfigNames |-> FALSE],
     state |-> [value |-> FALSE, runtime |-> None]]

\* ComponentImpl::new
ComponentImpl_new(access, id) ==
    register_state_handlers(
        [access |-> access,
         component |-> ValueBinary_new,
         id |-> id,
         failure |-> FailureHandler_new.failure,
         fail_handler |-> FailureHandler_new.fail_handler,
         state_handler |-> "none",
         registered |-> <<>>], 1)

\* A config setter of the access table: stores a boolean into its field and
\* rejects a value of another type.
config_setter(s, name, value) ==
    LET invoked == [s EXCEPT !.trace.setters = Append(@, name)]
    IN  IF value.type = "Bool"
        THEN [st |-> [invoked EXCEPT !.self.component.config[name] = value.value],
              res |-> Ok(Unit)]
        ELSE [st |-> [invoked EXCEPT !.trace.setterErrors = Append(@, name)],
              res |-> ConfigTypeError(name)]

\* configure_with_res as it would be if a missing key were reported only after
\* the remaining setters had run.
RECURSIVE configure_with_res_continue(_, _, _)
configure_with_res_continue(s, config, i) ==
    IF i > Len(s.self.access.configs) THEN [st |-> s, res |-> Ok(Unit)]
    ELSE LET name == s.self.access.configs[i]
         IN  IF config[name] = Absent
             THEN [st |-> configure_with_res_continue(s, config, i + 1).st,
                   res |-> ConfigNotSetError(name)]
             ELSE LET set == config_setter(s, name, config[name])
                  IN  IF set.res.kind # "Ok"
                      THEN set
                      ELSE configure_with_res_continue(set.st, config, i + 1)

\* ComponentImpl::configure_with_res, from the i-th entry of the config table
RECURSIVE configure_with_res(_, _, _)
configure_with_res(s, config, i) ==
    IF i > Len(s.self.access.configs) THEN [st |-> s, res |-> Ok(Unit)]
    ELSE LET name == s.self.access.configs[i]
         IN  IF config[name] = Absent
             THEN [st |-> s, res |-> ConfigNotSetError(name)]
             ELSE LET set == config_setter(s, name, config[name])
                  IN  IF set.res.kind # "Ok"
                      THEN set
                      ELSE configure_with_res(set.st, config, i + 1)

\* ValueBinary::init as it would be if it set the state to the opposite of the
\* config.
ValueBinary_init_negated(s) ==
    [st |-> set_state(s, ~s.self.component.config["config"]), res |-> Ok(Unit)]

\* ValueBinary::init
ValueBinary_init(s) ==
    [st |-> set_state(s, s.self.component.config["config"]), res |-> Ok(Unit)]

\* ValueBinary::on
ValueBinary_on(s, arg) ==
    [st |-> IF arg THEN set_state(s, TRUE) ELSE s, res |-> Ok(Unit)]

\* ValueBinary::off
ValueBinary_off(s, arg) ==
    [st |-> IF arg THEN set_state(s, FALSE) ELSE s, res |-> Ok(Unit)]

\* self.fail(error) in the plugin's code: the closure of make_handler
plugin_fail(s, error) ==
    fail([s EXCEPT !.trace.pluginFails = Append(@, error)], error)

\* ValueBinary::toggle
ValueBinary_toggle(s, arg) ==
    [st |-> plugin_fail(s, TestError), res |-> Ok(Unit)]

\* An init hook that returns an error after setting the state
Faulty_init(s) ==
    [st |-> set_state(s, s.self.component.config["config"]), res |-> PluginError("init")]

\* An action that returns an error after setting the state
Faulty_on(s, arg) ==
    IF arg
    THEN [st |-> set_state(s, TRUE), res |-> PluginError("on")]
    ELSE [st |-> s, res |-> Ok(Unit)]

\* plugin_init as it would be if the hook were skipped on a failed component.
plugin_init_gated(s) ==
    IF failure(s) # None
    THEN [st |-> s, res |-> Ok(Unit)]
    ELSE LET hooked == [s EXCEPT !.trace.hooks = Append(@, "init")]
         IN  IF s.self.access.plugin = "Faulty"
             THEN Faulty_init(hooked)
             ELSE ValueBinary_init(hooked)

\* MylifePluginHooks::init of the plugin type
plugin_init(s) ==
    LET hooked == [s EXCEPT !.trace.hooks = Append(@, "init")]
    IN  IF s.self.access.plugin = "Faulty"
        THEN Faulty_init(hooked)
        ELSE ValueBinary_init(hooked)

\* The executor the action table holds for name
action_executor(s, name, action) ==
    LET invoked == [s EXCEPT !.trace.executors = Append(@, name)]
    IN  CASE name = "on" -> IF s.self.access.plugin = "Faulty"
                            THEN Faulty_on(invoked, action.value)
                            ELSE ValueBinary_on(invoked, action.value)
          [] name = "off" -> ValueBinary_off(invoked, action.value)
          [] name = "toggle" -> ValueBinary_toggle(invoked, action.value)

\* execute_action_with_res as it would be if an unknown action were ignored.
execute_action_with_res_ignore(s, name, action) ==
    IF name \notin s.self.access.actions
    THEN [st |-> s, res |-> Ok(Unit)]
    ELSE action_executor(s, name, action)

\* ComponentImpl::execute_action_with_res
execute_action_with_res(s, name, action) ==
    IF name \notin s.self.access.actions
    THEN [st |-> s, res |-> NoSuchActionError(name)]
    ELSE action_executor(s, name, action)

\* res_to_fail as it would be if an error on an already failed component were
\* dropped without notification.
res_to_fail_once(r) ==
    LET given == [r.st EXCEPT !.trace.result = r.res]
    IN  IF r.st.trace.panicked THEN r.st
        ELSE IF r.res.kind = "Ok" THEN given
        ELSE IF failure(given) # None THEN given
        ELSE fail(given, r.res)

\* ComponentImpl::res_to_fail; a panic raised while the result was computed
\* unwinds past it.
res_to_fail(r) ==
    LET given == [r.st EXCEPT !.trace.result = r.res]
    IN  IF r.st.trace.panicked THEN r.st
        ELSE IF r.res.kind = "Ok" THEN given
        ELSE fail(given, r.res)

\* The state getter of the access table
state_getter(component) == typed_into(State_get(component.state), "Bool")

\* get_state as it would be if an unknown name were routed to the failure
\* handler, as execute_action does.
get_state_fail(s, name) ==
    IF \A i \in 1..Len(s.self.access.states) : s.self.access.states[i] # name
    THEN [st |-> fail(s, NoSuchStateError(name)), res |-> NoSuchStateError(name)]
    ELSE [st |-> s, res |-> Ok(state_getter(s.self.component))]

\* MylifeComponent::get_state
get_state(s, name) ==
    IF \A i \in 1..Len(s.self.access.states) : s.self.access.states[i] # name
    THEN [st |-> s, res |-> NoSuchStateError(name)]
    ELSE [st |-> s, res |-> Ok(state_getter(s.self.component))]

\* MylifeComponent::configure
configure(s, config) == res_to_fail(configure_with_res(s, config, 1))

\* MylifeComponent::init
init(s) == res_to_fail(plugin_init(s))

\* MylifeComponent::execute_action
execute_action(s, name, action) == res_to_fail(execute_action_with_res(s, name, action))

\* MylifeComponent::set_on_fail
set_on_fail(s, handler) == set_handler(s, handler)

\* MylifeComponent::set_on_state
set_on_state(s, handler) == [s EXCEPT !.self.state_handler = handler]


(***************************************************************************)
(* The host's calls on one component                                       *)
(***************************************************************************)
Start == [self |-> self, trace |-> EmptyTrace]

Returned(s) == IF s.trace.panicked THEN "panic" ELSE Unit

\* Effect of one call that ended in s, recorded as call c.
Finish(s, c) ==
    /\ pre' = self
    /\ self' = s.self
    /\ trace' = s.trace
    /\ call' = c
    /\ firstError' = IF firstError = None /\ s.trace.failArgs # <<>>
                     THEN s.trace.failArgs[1]
                     ELSE firstError
    /\ installed' = IF c.op \in {"set_on_fail", "set_on_state"}
                    THEN installed \cup {c.handler}
                    ELSE installed
    /\ UNCHANGED loaderVars
    /\ UNCHANGED stateVars

SetOnFail(handler) ==
    Finish(set_on_fail(Start, handler),
           [op |-> "set_on_fail", handler |-> handler, result |-> Unit])

SetOnState(handler) ==
    Finish(set_on_state(Start, handler),
           [op |-> "set_on_state", handler |-> handler, result |-> Unit])

GetState(name) ==
    LET r == get_state(Start, name)
    IN  Finish(r.st, [op |-> "get_state", name |-> name, result |-> r.res])

Configure(config) ==
    LET s == configure(Start, config)
    IN  Finish(s, [op |-> "configure", config |-> config, result |-> Returned(s)])

InitComponent ==
    LET s == init(Start)
    IN  Finish(s, [op |-> "init", result |-> Returned(s)])

ExecuteAction(name, action) ==
    LET s == execute_action(Start, name, action)
    IN  Finish(s, [op |-> "execute_action", name |-> name, action |-> action,
                   result |-> Returned(s)])

(***************************************************************************)
(* The calls on a State<T> on its own, T being a small unsigned integer    *)
(***************************************************************************)
StateValues == 0..MaxStateValue
StateListeners == {"listener_1", "listener_2"}
StateTypes == {"UInt8", "Int32"}

\* State::default
State_default == [value |-> 0, runtime |-> None]

NoStateCall == [op |-> "default", pre |-> State_default, result |-> Unit, listened |-> <<>>]

StateSet(value) ==
    LET out == State_set(container, value)
    IN  /\ container' = out.state
        /\ containerCall' = [op |-> "set", value |-> value, pre |-> container,
                             during |-> out.during,
                             result |-> IF out.panicked THEN "panic" ELSE Unit,
                             listened |-> out.listened]
        /\ UNCHANGED <<loaderVars, componentVars>>

StateGet ==
    /\ containerCall' = [op |-> "get", pre |-> container, result |-> State_get(container),
                     listened |-> <<>>]
    /\ UNCHANGED container
    /\ UNCHANGED <<loaderVars, componentVars>>

StateRuntimeRegister(listener, type) ==
    /\ container' = runtime_register(container, listener, type)
    /\ containerCall' = [op |-> "runtime_register", listener |-> listener, type |-> type,
                     pre |-> container, result |-> Unit, listened |-> <<>>]
    /\ UNCHANGED <<loaderVars, componentVars>>

(***************************************************************************)
(* Specifications                                                          *)
(***************************************************************************)
NoCall == [op |-> "new", result |-> Unit]

InitLoader ==
    /\ modules = <<>>
    /\ plugins = <<>>
    /\ components = <<>>
    /\ lastLoad = NoLoad

InitComponentVars(access) ==
    /\ self = ComponentImpl_new(access, "c")
    /\ trace = EmptyTrace
    /\ pre = self
    /\ call = NoCall
    /\ firstError = None
    /\ installed = {}

InitState ==
    /\ container = State_default
    /\ containerCall = NoStateCall

\* One component, of a plugin type registered with any of the access tables.
Init ==
    /\ InitLoader
    /\ InitState
    /\ \E access \in AccessTables : InitComponentVars(access)

Next ==
    \/ \E handler \in FailCallbacks : SetOnFail(handler)
    \/ \E handler \in StateCallbacks : SetOnState(handler)
    \/ \E name \in StateNames : GetState(name)
    \/ \E config \in Configs : Configure(config)
    \/ InitComponent
    \/ \E name \in ActionNames, action \in ActionValues : ExecuteAction(name, action)

Spec == Init /\ [][Next]_vars

\* The loader: the host loads modules, creates components and drops what it holds.
InitModule ==
    /\ InitLoader
    /\ InitState
    /\ InitComponentVars(CHOOSE access \in AccessTables :
                             access.plugin = "ValueBinary" /\ access.configs = <<"config">>)

NextModule ==
    \/ \E name \in ModuleNames, decl \in ModuleDeclaration : Load(name, decl)
    \/ \E p \in 1..Len(plugins) : DropPlugin(p)
    \/ \E p \in 1..Len(plugins) : CreateComponent(p)
    \/ \E c \in 1..Len(components) : DropComponent(c)
    \/ DiscardResult

SpecModule == InitModule /\ [][NextModule]_vars

\* A State<T> on its own: created by default, bound by runtime_register, set
\* and read.
InitStateOnly ==
    /\ InitModule

NextState ==
    \/ \E value \in StateValues : StateSet(value)
    \/ StateGet
    \/ \E listener \in StateListeners, type \in StateTypes :
          StateRuntimeRegister(listener, type)

SpecState == InitStateOnly /\ [][NextState]_vars


(***************************************************************************)
(* Properties of the failure latch (specification Spec)                    *)
(***************************************************************************)

\* C1: the failure latch is write-once.  In every state failure() is the error
\* given to the first fail call ever made (nothing before the first call), and
\* an operation that starts on a failed component leaves the stored error as it
\* was: no later fail overwrites it, no operation clears it.
C1_FailureWriteOnce ==
    /\ self.failure = firstError
    /\ pre.failure # None => self.failure = pre.failure

\* A second failure, with another error, has been triggered on a failed component.
C1_Witness ==
    /\ pre.failure # None
    /\ trace.failArgs # <<>>
    /\ trace.failArgs[1] # pre.failure
    /\ self.failure = pre.failure

\* C2: every call to fail invokes the fail callback installed at that moment
\* exactly once, with the first (stored) error; the error of a later fail is
\* never delivered.
C2_FailCallbackGetsFirstError ==
    /\ Len(trace.failCalls) = Len(trace.failArgs)
    /\ \A i \in 1..Len(trace.failCalls) :
          /\ trace.failCalls[i].handler = pre.fail_handler
          /\ trace.failCalls[i].error = firstError

\* A failure e2 triggered after a failure e1, under an installed callback: the
\* callback was invoked once, with e1.
C2_Witness ==
    /\ firstError # None
    /\ Len(trace.failArgs) = 1
    /\ trace.failArgs[1] # firstError
    /\ pre.fail_handler \in FailCallbacks
    /\ trace.failCalls = <<[handler |-> pre.fail_handler, error |-> firstError]>>

(***************************************************************************)
(* Properties of the loader (specification SpecModule)                     *)
(***************************************************************************)
HeldOf(m) == {p \in 1..Len(plugins) : plugins[p].module = m}

\* C3: the library of a module is never unloaded while a component created
\* from one of its plugins is alive.
C3_NoUnloadWhileComponentAlive ==
    \A c \in 1..Len(components) : modules[components[c].library].library = "loaded"

\* C4: every Plugin returned by load holds a strong reference to its Module.
\* The library of a module is loaded exactly as long as the host holds one of
\* the module's Plugins, and the strong count of the Module is the number of
\* those Plugins.
C4_PluginsKeepLibraryLoaded ==
    \A m \in 1..Len(modules) :
        /\ modules[m].strong = Cardinality(HeldOf(m))
        /\ modules[m].library = "loaded" <=> HeldOf(m) # {}

\* One module has lost all its Plugins after a component was created from one
\* of them, and is unloaded; another is loaded, with a Plugin still held.
C4_Witness ==
    /\ \E c \in 1..Len(components) :
          /\ HeldOf(components[c].library) = {}
          /\ modules[components[c].library].library = "unloaded"
    /\ \E m \in 1..Len(modules) :
          /\ HeldOf(m) # {}
          /\ modules[m].library = "loaded"

Mismatch(decl) ==
    \/ decl.rustc_version # RUSTC_VERSION
    \/ decl.core_version # CORE_VERSION
    \/ decl.mylife_runtime_version # MYLIFE_RUNTIME_VERSION

\* C5: load compares compiler, core and protocol version in that order and
\* returns the error of the first mismatch, carrying the module's value and
\* the host's value.
C5_FirstMismatchReported ==
    lastLoad.op = "load" =>
        LET decl == lastLoad.decl
            error == lastLoad.out.error
        IN  /\ decl.rustc_version # RUSTC_VERSION =>
                  error = [kind |-> "RustCompilerVersionMismatch",
                           module |-> decl.rustc_version, core |-> RUSTC_VERSION]
            /\ (decl.rustc_version = RUSTC_VERSION /\ decl.core_version # CORE_VERSION) =>
                  error = [kind |-> "CoreVersionMismatch",
                           module |-> decl.core_version, core |-> CORE_VERSION]
            /\ (/\ decl.rustc_version = RUSTC_VERSION
                /\ decl.core_version = CORE_VERSION
                /\ decl.mylife_runtime_version # MYLIFE_RUNTIME_VERSION) =>
                  error = [kind |-> "MylifeRuntimeVersionMismatch",
                           module |-> decl.mylife_runtime_version, core |-> MYLIFE_RUNTIME_VERSION]
            /\ ~Mismatch(decl) => lastLoad.out.result = "Ok"

\* A load of a module whose three versions all mismatch: the compiler mismatch
\* is the one reported.
C5_Witness ==
    /\ lastLoad.op = "load"
    /\ lastLoad.decl.rustc_version # RUSTC_VERSION
    /\ lastLoad.decl.core_version # CORE_VERSION
    /\ lastLoad.decl.mylife_runtime_version # MYLIFE_RUNTIME_VERSION
    /\ lastLoad.out.result = "Err"
    /\ lastLoad.out.error.kind = "RustCompilerVersionMismatch"

\* C6: no partial load.  When one of the three version checks fails the
\* registration function is not invoked, no Module is constructed and no
\* Plugin is returned or handed to the host; the registration function is
\* invoked only when all three checks have passed.
C6_NoPartialLoad ==
    lastLoad.op = "load" =>
        /\ Mismatch(lastLoad.decl) =>
              /\ lastLoad.out.result = "Err"
              /\ ~lastLoad.out.registerInvoked
              /\ ~lastLoad.out.constructed
              /\ lastLoad.out.plugins = <<>>
              /\ Len(plugins) = lastLoad.held
        /\ lastLoad.out.registerInvoked => ~Mismatch(lastLoad.decl)

\* A load failed on the protocol version alone, of a module whose registration
\* function would have registered plugins.
C6_Witness ==
    /\ lastLoad.op = "load"
    /\ lastLoad.decl.rustc_version = RUSTC_VERSION
    /\ lastLoad.decl.core_version = CORE_VERSION
    /\ lastLoad.decl.mylife_runtime_version # MYLIFE_RUNTIME_VERSION
    /\ Len(lastLoad.decl.register) = MaxRegister
    /\ lastLoad.out.result = "Err"
    /\ Len(modules) > 0

\* C7: for a module whose versions match, load returns one Plugin per
\* register_plugin call of the registration function, in the order of the
\* calls and without deduplication, and these are the Plugins the host gets.
C7_OnePluginPerRegistration ==
    (lastLoad.op = "load" /\ ~Mismatch(lastLoad.decl)) =>
        LET calls == lastLoad.decl.register
            returned == lastLoad.out.plugins
        IN  /\ lastLoad.out.result = "Ok"
            /\ Len(returned) = Len(calls)
            /\ \A i \in 1..Len(calls) : returned[i].runtime = calls[i]
            /\ SubSeq(plugins, lastLoad.held + 1, Len(plugins)) = returned

\* A module registered the same plugin runtime twice and load returned two
\* Plugins for it.
C7_Witness ==
    /\ lastLoad.op = "load"
    /\ Len(lastLoad.decl.register) = 2
    /\ lastLoad.decl.register[1] = lastLoad.decl.register[2]
    /\ Len(lastLoad.out.plugins) = 2
    /\ lastLoad.out.plugins[1].id = lastLoad.out.plugins[2].id


(***************************************************************************)
(* Properties of the component's operations (specification Spec)           *)
(***************************************************************************)

\* The position, in the iteration order of the config table, of the first key
\* the config map lacks; 0 when it lacks none.
FirstMissing(configs, config) ==
    LET missing == {i \in 1..Len(configs) : config[configs[i]] = Absent}
    IN  IF missing = {} THEN 0
        ELSE CHOOSE i \in missing : \A j \in missing : i <= j

\* What a configure that stopped at position k of the config table leaves: a
\* 'config key not set' error naming the k-th key given to the failure
\* handler, the setters before k invoked (in order) and their values applied,
\* no other setter invoked and nothing else of the plugin changed.
StoppedAt(k) ==
    LET names == pre.access.configs
    IN  /\ trace.failArgs = <<ConfigNotSetError(names[k])>>
        /\ Len(trace.failCalls) = 1
        /\ trace.setters = SubSeq(names, 1, k - 1)
        /\ \A i \in 1..(k - 1) :
              call.config[names[i]] = BoolValue(self.component.config[names[i]])
        /\ \A n \in ConfigNames :
              (\A i \in 1..(k - 1) : names[i] # n) =>
                  self.component.config[n] = pre.component.config[n]
        /\ self.component.state = pre.component.state

\* C8 as stated: configure with a config map that lacks a declared key stops
\* at the first missing key in iteration order.
C8_StopsAtFirstMissingKey ==
    (call.op = "configure" /\ FirstMissing(pre.access.configs, call.config) # 0) =>
        StoppedAt(FirstMissing(pre.access.configs, call.config))

\* C8, amended: configure with a config map that lacks a declared key stops at
\* the first missing key in iteration order, unless a setter invoked before it
\* returned an error (that error then ends the iteration instead).
C8_StopsAtFirstMissingKeyUnlessSetterError ==
    (/\ call.op = "configure"
     /\ FirstMissing(pre.access.configs, call.config) # 0
     /\ trace.setterErrors = <<>>) =>
        StoppedAt(FirstMissing(pre.access.configs, call.config))

\* A configure stopped at the second key of the table, after the setter of the
\* first key changed the plugin's field.
C8_Witness ==
    /\ call.op = "configure"
    /\ FirstMissing(pre.access.configs, call.config) = 2
    /\ trace.setters = <<pre.access.configs[1]>>
    /\ trace.setterErrors = <<>>
    /\ self.component.config[pre.access.configs[1]] # pre.component.config[pre.access.configs[1]]
    /\ self.failure = ConfigNotSetError(pre.access.configs[2])

\* C9: execute_action with a name absent from the action table invokes no
\* executor, leaves the plugin's values unchanged and gives a 'no such action'
\* error naming it to the failure handler: failure() becomes that error on an
\* Unfailed component and stays the earlier error on a Failed one, and the
\* fail callback is invoked once.
C9_UnknownActionFails ==
    (call.op = "execute_action" /\ call.name \notin pre.access.actions) =>
        /\ trace.executors = <<>>
        /\ trace.listenerCalls = <<>>
        /\ self.component = pre.component
        /\ trace.failArgs = <<NoSuchActionError(call.name)>>
        /\ self.failure = IF pre.failure = None
                          THEN NoSuchActionError(call.name)
                          ELSE pre.failure
        /\ Len(trace.failCalls) = 1
        /\ trace.failCalls[1].handler = pre.fail_handler

\* An unknown action executed on an Unfailed component whose state is true,
\* with a fail callback installed: the error is latched, the state still true.
C9_Witness ==
    /\ call.op = "execute_action"
    /\ call.name = "missing"
    /\ pre.failure = None
    /\ pre.fail_handler \in FailCallbacks
    /\ pre.component.state.value = TRUE
    /\ self.component.state.value = TRUE
    /\ self.failure = NoSuchActionError("missing")

Registered(states, name) == \E i \in 1..Len(states) : states[i] = name

\* C10: get_state changes nothing and notifies nobody.  With a name absent
\* from the state table it returns a 'no such state' error naming it to the
\* caller; with a registered name it returns the member's current value.
C10_GetStateReadOnly ==
    call.op = "get_state" =>
        /\ self = pre
        /\ trace = EmptyTrace
        /\ ~Registered(pre.access.states, call.name) =>
              call.result = NoSuchStateError(call.name)
        /\ Registered(pre.access.states, call.name) =>
              call.result = Ok([type |-> "Bool", value |-> pre.component.state.value])

\* get_state of an unknown name on an Unfailed component whose state is true
\* and whose callbacks are installed.
C10_Witness ==
    /\ call.op = "get_state"
    /\ call.name = "missing"
    /\ call.result.kind = "NoSuchStateError"
    /\ self.failure = None
    /\ self.fail_handler \in FailCallbacks
    /\ self.state_handler \in StateCallbacks
    /\ self.component.state.value = TRUE


\* The errors the runtime gives to the failure handler for the last operation:
\* the error of the Result the operation produced, if it is one.
Routed == IF trace.result # None /\ trace.result.kind # "Ok" THEN <<trace.result>> ELSE <<>>

\* C11: every error produced by configure, init or execute_action is routed to
\* the failure latch and not returned to the caller, before the operation
\* returns: the error of a failed setter, of the init hook or of an executor
\* is given to fail, after the failures the plugin raised itself; it is stored
\* if nothing was stored, and the fail callback is invoked once for it.  An
\* operation whose Result is Ok gives nothing to fail on its own.
C11_ErrorsRoutedToLatch ==
    call.op \in {"configure", "init", "execute_action"} =>
        /\ call.result \in {Unit, "panic"}
        /\ trace.failArgs = trace.pluginFails \o Routed
        /\ Len(trace.failCalls) = Len(trace.failArgs)
        /\ (trace.setterErrors # <<>> /\ ~trace.panicked) =>
              /\ Routed = <<ConfigTypeError(trace.setterErrors[1])>>
              /\ trace.failCalls = <<[handler |-> pre.fail_handler, error |-> self.failure]>>
        /\ (pre.access.plugin = "Faulty" /\ call.op = "init") =>
              Routed = <<PluginError("init")>>
        /\ (/\ pre.access.plugin = "Faulty" /\ call.op = "execute_action"
            /\ call.name = "on" /\ call.action.value) =>
              Routed = <<PluginError("on")>>
        /\ (Routed # <<>> /\ pre.failure = None /\ trace.pluginFails = <<>>) =>
              self.failure = Routed[1]
        /\ (trace.result # None /\ trace.result.kind = "Ok") =>
              trace.failArgs = trace.pluginFails

\* The init hook returned an error on a component that had already failed with
\* another error: the callback was invoked once, the first error is still the
\* one stored.
C11_Witness ==
    /\ call.op = "init"
    /\ call.result = Unit
    /\ Routed = <<PluginError("init")>>
    /\ pre.failure # None
    /\ pre.failure # PluginError("init")
    /\ Len(trace.failCalls) = 1
    /\ trace.failCalls[1].error = pre.failure


\* C12: as long as set_on_fail has not been called the default handler is the
\* one installed, and any failure then aborts through it instead of returning
\* normally; once set_on_fail has installed a handler the default handler is
\* never installed or invoked again, and no operation aborts.
C12_DefaultHandlerAborts ==
    /\ (installed \cap FailCallbacks = {}) <=> self.fail_handler = "default"
    /\ (trace.failArgs # <<>> /\ pre.fail_handler = "default") =>
          /\ trace.panicked
          /\ call.result = "panic"
          /\ trace.failCalls = <<[handler |-> "default", error |-> self.failure]>>
    /\ pre.fail_handler # "default" =>
          /\ self.fail_handler # "default"
          /\ \A i \in 1..Len(trace.failCalls) : trace.failCalls[i].handler # "default"
          /\ ~trace.panicked

\* The plugin raised a failure by itself on a component on which set_on_fail
\* was never called: the action aborted.
C12_Witness ==
    /\ installed \cap FailCallbacks = {}
    /\ call.op = "execute_action"
    /\ call.name = "toggle"
    /\ trace.pluginFails = <<TestError>>
    /\ call.result = "panic"


(***************************************************************************)
(* Properties of the State container                                       *)
(***************************************************************************)

\* C13: on a bound State, every set(v) stores v and then invokes the bound
\* listener exactly once with the Value encoding of v: when the listener runs
\* the container already holds v, and after the operation the container holds
\* the value of the last set.
C13_SetStoresThenNotifies ==
    /\ Len(trace.listenerCalls) = Len(trace.sets)
    /\ \A i \in 1..Len(trace.sets) :
          /\ trace.listenerCalls[i].name = "state"
          /\ trace.listenerCalls[i].value = [type |-> "Bool", value |-> trace.sets[i]]
          /\ trace.listenerCalls[i].held = trace.sets[i]
    /\ trace.sets # <<>> => self.component.state.value = trace.sets[Len(trace.sets)]

\* init set the state of a component from false to true: the listener ran once,
\* with true, the container holding true.
C13_Witness ==
    /\ call.op = "init"
    /\ pre.component.state.value = FALSE
    /\ trace.sets = <<TRUE>>
    /\ trace.listenerCalls = <<[name |-> "state", value |-> BoolValue(TRUE), held |-> TRUE]>>
    /\ self.component.state.value = TRUE

\* C14: set on a State that runtime_register has not bound panics and has no
\* other effect: the State still holds its default value and no listener is
\* invoked.
C14_UnboundSetPanics ==
    (containerCall.op = "set" /\ containerCall.pre.runtime = None) =>
        /\ containerCall.result = "panic"
        /\ containerCall.listened = <<>>
        /\ container = containerCall.pre
        /\ container = State_default

\* set was called with a value other than the default on an unbound State.
C14_Witness ==
    /\ containerCall.op = "set"
    /\ containerCall.pre.runtime = None
    /\ containerCall.value # 0
    /\ containerCall.result = "panic"
    /\ container.value = 0


(***************************************************************************)
(* Properties of the notification channels and of ValueBinary (Spec)       *)
(***************************************************************************)

\* C15: each notification channel has one observer, the callback installed
\* last.  set_on_fail and set_on_state replace the callback of their channel
\* and nothing else changes it; every failure notification and every state
\* notification of an operation goes to the callback installed when the
\* operation started, never to a callback that was replaced, and a failure
\* notification carries the first stored error whenever its callback was
\* installed.
C15_OneObserverPerChannel ==
    /\ self.fail_handler = IF call.op = "set_on_fail" THEN call.handler ELSE pre.fail_handler
    /\ self.state_handler = IF call.op = "set_on_state" THEN call.handler ELSE pre.state_handler
    /\ Len(trace.failCalls) = Len(trace.failArgs)
    /\ \A i \in 1..Len(trace.failCalls) :
          /\ trace.failCalls[i].handler = pre.fail_handler
          /\ trace.failCalls[i].handler \notin installed \ {pre.fail_handler}
          /\ trace.failCalls[i].error = firstError
    /\ Len(trace.stateCalls) <= Len(trace.listenerCalls)
    /\ \A i \in 1..Len(trace.stateCalls) :
          /\ trace.stateCalls[i].handler = pre.state_handler
          /\ trace.stateCalls[i].handler \notin installed \ {pre.state_handler}

\* Both fail callbacks and both state callbacks have been installed, so one of
\* each was replaced; an operation on the failed component then notified the
\* state callback and the fail callback installed last, the latter with the
\* first error and not with the error of this operation.
C15_Witness ==
    /\ installed = FailCallbacks \cup StateCallbacks
    /\ call.op \in {"init", "execute_action"}
    /\ pre.failure # None
    /\ Len(trace.stateCalls) = 1
    /\ trace.stateCalls[1].handler = self.state_handler
    /\ Len(trace.failCalls) = 1
    /\ trace.failCalls[1].handler = self.fail_handler
    /\ trace.failArgs[1] # firstError
    /\ trace.failCalls[1].error = firstError

\* The ValueBinary plugin with its one config, driven with a fail callback
\* installed.
ValueBinaryWired ==
    /\ pre.access.plugin = "ValueBinary"
    /\ pre.access.configs = <<"config">>
    /\ pre.fail_handler \in FailCallbacks

\* C16: for ValueBinary (one boolean config, one boolean state, init sets the
\* state from the config), after set_on_fail: configure with the config key
\* set to a boolean v stores v and raises no failure; init then sets the state
\* to the stored config and raises no failure; get_state of the state member
\* then returns that value.
C16_InitSetsStateFromConfig ==
    ValueBinaryWired =>
        /\ (call.op = "configure" /\ call.config["config"] \in {BoolValue(TRUE), BoolValue(FALSE)}) =>
              /\ call.config["config"] = BoolValue(self.component.config["config"])
              /\ trace.failArgs = <<>>
              /\ self.failure = pre.failure
        /\ call.op = "init" =>
              /\ self.component.state.value = pre.component.config["config"]
              /\ self.component.config = pre.component.config
              /\ trace.failArgs = <<>>
              /\ self.failure = pre.failure
        /\ (call.op = "get_state" /\ call.name = "state") =>
              /\ call.result = Ok([type |-> "Bool", value |-> pre.component.state.value])
              /\ self.failure = pre.failure

\* init ran on an unfailed ValueBinary whose config had been set to true and
\* whose state was false: the state is true and nothing is latched.
C16_Witness ==
    /\ ValueBinaryWired
    /\ call.op = "init"
    /\ pre.component.config["config"] = TRUE
    /\ pre.component.state.value = FALSE
    /\ self.component.state.value = TRUE
    /\ self.failure = None

\* C17: on a component whose boolean state is true, execute_action("toggle",
\* true) inverts the state: afterwards the state member is false.
C17_ToggleInverts ==
    (/\ call.op = "execute_action"
     /\ call.name = "toggle"
     /\ call.action = BoolValue(TRUE)
     /\ pre.access.plugin = "ValueBinary"
     /\ pre.component.state.value = TRUE) =>
        self.component.state.value = FALSE


(***************************************************************************)
(* Properties of Plugin ids (specification SpecModule)                     *)
(***************************************************************************)

\* The kebab-case form of each name a load may be given, written out.
KebabOf(name) ==
    CASE name = <<"a", "b">> -> <<"a", "b">>
      [] name = <<"a", "_", "b">> -> <<"a", "-", "b">>
      [] name = <<"a", "B">> -> <<"a", "-", "b">>

\* The Plugins returned by a load have the id "<module-name>.<plugin-name>",
\* module-name being the kebab-case form of the name given to load.
IdFormat ==
    (lastLoad.op = "load" /\ lastLoad.out.result = "Ok") =>
        /\ lastLoad.out.moduleName = KebabOf(lastLoad.name)
        /\ modules[Len(modules)].name = KebabOf(lastLoad.name)
        /\ \A i \in 1..Len(lastLoad.out.plugins) :
              lastLoad.out.plugins[i].id =
                  KebabOf(lastLoad.name) \o <<".">> \o lastLoad.decl.register[i]

\* The modules loaded so far have pairwise distinct module names.
ModuleNamesUnique ==
    \A m, n \in 1..Len(modules) : m # n => modules[m].name # modules[n].name

\* C18 as stated: a Plugin's id is "<module-name>.<plugin-name>" with
\* module-name the kebab-case form of the name given to load, and when the
\* module names are pairwise distinct no two Plugins held by the host have the
\* same id.
C18_IdsUnique ==
    /\ IdFormat
    /\ ModuleNamesUnique =>
          \A p, q \in 1..Len(plugins) : p # q => plugins[p].id # plugins[q].id

\* C18, amended: a Plugin's id is "<module-name>.<plugin-name>" with
\* module-name the kebab-case form of the name given to load, and two Plugins
\* held by the host have the same id exactly when their modules have the same
\* kebab-case name and they were registered under the same plugin name (names
\* without '.'): two registrations of one name by one module, or two modules
\* whose names have the same kebab-case form, give equal ids.
C18_IdsEqualIffSameNames ==
    /\ IdFormat
    /\ \A p, q \in 1..Len(plugins) :
          plugins[p].id = plugins[q].id <=>
              /\ modules[plugins[p].module].name = modules[plugins[q].module].name
              /\ plugins[p].runtime = plugins[q].runtime

\* A load of "aB" returned a Plugin with id "a-b.p" while the host held a
\* Plugin of another module with the same id.
C18_Witness ==
    /\ lastLoad.op = "load"
    /\ lastLoad.name = <<"a", "B">>
    /\ lastLoad.out.result = "Ok"
    /\ \E p \in 1..lastLoad.held : \E q \in (lastLoad.held + 1)..Len(plugins) :
          /\ plugins[q].id = <<"a", "-", "b", ".", "p">>
          /\ plugins[p].id = plugins[q].id
          /\ plugins[p].module # plugins[q].module


(***************************************************************************)
(* Properties of the state listeners of a component (specification Spec)   *)
(***************************************************************************)

\* C19: the state listener looks up the state callback when it runs.  A state
\* set performed while no state callback is installed delivers no notification
\* and raises no failure: the set is stored, the operation does not abort and
\* every error given to fail is one the plugin or the operation reported.  With
\* a callback installed (always after construction), every state set of the
\* operation is delivered to it, with the name of the member and the new
\* value.
C19_CallbackLookedUpAtNotification ==
    /\ pre.state_handler = "none" =>
          /\ trace.stateCalls = <<>>
          /\ ~trace.unbound
          /\ trace.panicked => trace.failArgs # <<>>
          /\ \A i \in 1..Len(trace.failArgs) :
                \/ trace.failArgs[i] = trace.result
                \/ \E j \in 1..Len(trace.pluginFails) : trace.pluginFails[j] = trace.failArgs[i]
          /\ trace.sets # <<>> => self.component.state.value = trace.sets[Len(trace.sets)]
    /\ pre.state_handler # "none" =>
          /\ Len(trace.stateCalls) = Len(trace.sets)
          /\ \A i \in 1..Len(trace.sets) :
                trace.stateCalls[i] = [handler |-> pre.state_handler,
                                       name |-> self.access.states[1],
                                       value |-> [type |-> "Bool", value |-> trace.sets[i]]]

\* The component's state was set to true while no state callback had ever been
\* installed; on_state_2 was installed afterwards, and the action off then
\* delivered the change to false to it.
C19_Witness ==
    /\ call.op = "execute_action"
    /\ call.name = "off"
    /\ installed \cap StateCallbacks = {"on_state_2"}
    /\ pre.state_handler = "on_state_2"
    /\ pre.component.state.value = TRUE
    /\ trace.sets = <<FALSE>>
    /\ trace.stateCalls = <<[handler |-> "on_state_2", name |-> "state",
                             value |-> [type |-> "Bool", value |-> FALSE]]>>

\* C20: ComponentImpl::new binds a listener to every state member of the
\* access table exactly once before the component is returned, and no later
\* operation binds again; so no state set by init, a config setter or an
\* action executor is made on an unbound State, and every set reaches the
\* bound listener.
C20_StatesBoundAtConstruction ==
    /\ self.registered = self.access.states
    /\ \A i \in 1..Len(self.access.states) :
          self.component.state.runtime =
              [listener |-> self.access.states[i], type |-> "Bool"]
    /\ ~trace.unbound
    /\ Len(trace.listenerCalls) = Len(trace.sets)

\* An action executor set the state of a created component and the set
\* reached the listener bound at construction.
C20_Witness ==
    /\ call.op = "execute_action"
    /\ trace.executors # <<>>
    /\ trace.sets = <<TRUE>>
    /\ trace.listenerCalls # <<>>
    /\ pre.registered = <<"state">>
    /\ ~trace.unbound
    /\ ~trace.panicked


(***************************************************************************)
(* The failure latch and the operations (specification Spec)               *)
(***************************************************************************)

\* The component the last operation started on, had it not failed.
Unfailed == [self |-> [pre EXCEPT !.failure = None], trace |-> EmptyTrace]

\* The last operation, run on the unfailed component.
OnUnfailed ==
    CASE call.op = "configure" -> configure(Unfailed, call.config)
      [] call.op = "init" -> init(Unfailed)
      [] call.op = "execute_action" -> execute_action(Unfailed, call.name, call.action)
      [] call.op = "get_state" -> get_state(Unfailed, call.name).st
      [] call.op = "set_on_fail" -> set_on_fail(Unfailed, call.handler)
      [] call.op = "set_on_state" -> set_on_state(Unfailed, call.handler)
      [] OTHER -> Unfailed

\* C21: the failure latch does not gate operations.  After an operation on a
\* failed component the component is still there, with its latch, its access
\* table and its bound listeners; get_state of a registered name returns the
\* member's current value; configure, init and execute_action of a registered
\* name invoke the setters, the hook and the executor; and the component's
\* plugin value, the setters, hook and executors invoked, the state sets, the
\* state notifications and the result are what the same operation gives on
\* the component with no failure stored.
C21_LatchDoesNotGate ==
    pre.failure # None =>
        /\ self.failure = pre.failure
        /\ self.id = pre.id
        /\ self.access = pre.access
        /\ self.registered = pre.registered
        /\ self.component.state.runtime = pre.component.state.runtime
        /\ (call.op = "get_state" /\ \E i \in 1..Len(pre.access.states) : pre.access.states[i] = call.name) =>
              /\ call.result = Ok([type |-> "Bool", value |-> pre.component.state.value])
              /\ self = pre
        /\ call.op = "init" =>
              /\ trace.hooks = <<"init">>
              /\ trace.sets = <<pre.component.config["config"]>>
        /\ (call.op = "execute_action" /\ call.name \in pre.access.actions) =>
              trace.executors = <<call.name>>
        /\ (call.op = "configure" /\ \A i \in 1..Len(pre.access.configs) :
                                         call.config[pre.access.configs[i]] \in {BoolValue(TRUE), BoolValue(FALSE)}) =>
              /\ trace.setters = pre.access.configs
              /\ \A i \in 1..Len(pre.access.configs) :
                    BoolValue(self.component.config[pre.access.configs[i]]) =
                        call.config[pre.access.configs[i]]
        /\ LET u == OnUnfailed
           IN  /\ self.component = u.self.component
               /\ self.fail_handler = u.self.fail_handler
               /\ self.state_handler = u.self.state_handler
               /\ trace.setters = u.trace.setters
               /\ trace.setterErrors = u.trace.setterErrors
               /\ trace.hooks = u.trace.hooks
               /\ trace.executors = u.trace.executors
               /\ trace.sets = u.trace.sets
               /\ trace.listenerCalls = u.trace.listenerCalls
               /\ trace.stateCalls = u.trace.stateCalls
               /\ trace.result = u.trace.result
               /\ trace.failArgs = u.trace.failArgs
               /\ trace.pluginFails = u.trace.pluginFails
               /\ trace.panicked = u.trace.panicked

\* The action on ran on a failed component: its executor was invoked, the
\* state went from false to true and the state callback was notified of it.
C21_Witness ==
    /\ pre.failure # None
    /\ call.op = "execute_action"
    /\ call.name = "on"
    /\ trace.executors = <<"on">>
    /\ pre.component.state.value = FALSE
    /\ self.component.state.value = TRUE
    /\ Len(trace.stateCalls) = 1
    /\ trace.stateCalls[1].value = [type |-> "Bool", value |-> TRUE]
    /\ self.failure = pre.failure


====
